---- MODULE Spec2Model ----
(***************************************************************************)
(* The cookbook service of devdonalds.py: the shared cookbook, the         *)
(* create_entry handler (POST /entry) and the summary handler              *)
(* (GET /summary) with its recursive expansion _expand_to_ingredients.     *)
(*                                                                         *)
(* Spec     handles one request at a time, each handler run as a whole.    *)
(* ConcSpec runs the handlers on several threads, interleaved at every     *)
(*          access to the shared cookbook (the code takes no lock).        *)
(* ParseSpec handles POST /parse, which runs parse_handwriting.            *)
(* WideSpec is Spec on recipes two levels deep over two base ingredients,  *)
(*          with quantities below zero.                                    *)
(***************************************************************************)
EXTENDS Integers, Sequences, FiniteSets, TLC

VARIABLES
    cookbook,   \* the global dict: stored name -> Ingredient or Recipe
    pc,         \* per thread: "idle", "store", "expand" or "done"
    req,        \* per thread: the request being handled
    resp,       \* per thread: the response, once the handler returned
    entry,      \* create_entry's local `entry`, between the uniqueness check and the write
    stack,      \* summary: the pending calls of _expand_to_ingredients, innermost first
    acc,        \* summary: the local dict `acc`, in insertion order
    total,      \* summary: the cook time summed so far
    history     \* per thread, not in the code: the values `cookbook` has had since
                \* the summary call the thread is handling began

vars == <<cookbook, pc, req, resp, entry, stack, acc, total, history>>

(***************************************************************************)
(* Bounds of the model.                                                    *)
(***************************************************************************)
\* The interpreter's recursion limit: a call nested deeper raises RecursionError.
RecursionLimit == 4
\* The largest quantity and the largest cook time a request carries.
MaxQuantity == 2
MaxCookTime == 3
\* the longest string sent to /parse
MaxLen == 5

Threads == {"t1", "t2"}
\* When requests are handled one at a time, a single worker serves them all.
Worker == "t1"

(***************************************************************************)
(* JSON values. Strings are sequences of characters.                       *)
(***************************************************************************)
JNull    == [k |-> "null", i |-> 0, s |-> <<>>]
JInt(n)  == [k |-> "int",  i |-> n, s |-> <<>>]
JBool(b) == [k |-> "bool", i |-> IF b THEN 1 ELSE 0, s |-> <<>>]
JStr(x)  == [k |-> "str",  i |-> 0, s |-> x]

\* isinstance(v, int): bool is a subclass of int
IsInt(v) == v.k \in {"int", "bool"}
\* isinstance(v, str)
IsStr(v) == v.k = "str"

IsSpace(c) == c \in {" ", "\t", "\n"}

\* str.strip()
RECURSIVE LStrip(_)
LStrip(x) == IF x # <<>> /\ IsSpace(Head(x)) THEN LStrip(Tail(x)) ELSE x
RECURSIVE RStrip(_)
RStrip(x) ==
    IF x # <<>> /\ IsSpace(x[Len(x)]) THEN RStrip(SubSeq(x, 1, Len(x) - 1)) ELSE x
Strip(x) == RStrip(LStrip(x))

\* `not isinstance(name, str) or len(name.strip()) == 0`
BadName(v) == ~IsStr(v) \/ Len(Strip(v.s)) = 0

(***************************************************************************)
(* The dataclasses.                                                        *)
(***************************************************************************)
RequiredItem(n, q) == [name |-> n, quantity |-> q]
Ingredient(n, ct)  == [type |-> "ingredient", name |-> n, cook_time |-> ct,
                       required_items |-> <<>>]
Recipe(n, items)   == [type |-> "recipe", name |-> n, cook_time |-> JNull,
                       required_items |-> items]

IsIngredient(e) == e.type = "ingredient"
IsRecipe(e)     == e.type = "recipe"

(***************************************************************************)
(* Responses. `line` is the source line of the return statement taken.     *)
(***************************************************************************)
NoResp == [status |-> 0, line |-> 0, kind |-> "none", name |-> <<>>, cookTime |-> 0,
           ingredients |-> <<>>]
\* return '', 400
Reject(l) == [status |-> 400, line |-> l, kind |-> "none", name |-> <<>>,
              cookTime |-> 0, ingredients |-> <<>>]
\* return jsonify({}), 200
Created(l) == [status |-> 200, line |-> l, kind |-> "empty", name |-> <<>>,
               cookTime |-> 0, ingredients |-> <<>>]

\* nth counts how many times the client has sent the request
\* `own` is the `type` field of the request body itself, before line 75 unwraps it
NoReq == [op |-> "none", name |-> JNull, type |-> JNull, own |-> JNull, nth |-> 0]

\* the strings 'recipe' and 'ingredient'
TypeRecipe     == <<"r", "e", "c", "i", "p", "e">>
TypeIngredient == <<"i", "n", "g", "r", "e", "d", "i", "e", "n", "t">>

(***************************************************************************)
(* create_entry                                                            *)
(***************************************************************************)
\* line 75: the entry is data["entry"] when that is a dict, and data itself otherwise
EntryOf(data) ==
    IF data.entry # <<>> /\ data.entry[1].k = "dict" THEN data.entry[1]
    ELSE [k |-> data.k, type |-> data.type, name |-> data.name,
          cookTime |-> data.cookTime, requiredItems |-> data.requiredItems]

\* CreateCheck with a uniqueness check that only looks at entries of the same type.
CreateCheckSameType(data, cb) ==
    IF data.k # "dict" THEN 72
    ELSE LET e == EntryOf(data) IN
         IF e.k # "dict" THEN 77
         ELSE IF ~(IsStr(e.type) /\ e.type.s \in {TypeRecipe, TypeIngredient}) THEN 84
         ELSE IF BadName(e.name) THEN 88
         ELSE IF /\ e.name.s \in DOMAIN cb
                 /\ IsRecipe(cb[e.name.s]) = (e.type.s = TypeRecipe) THEN 92
         ELSE 0

\* CreateCheck without the test of `type` at line 83.
CreateCheckNoType(data, cb) ==
    IF data.k # "dict" THEN 72
    ELSE LET e == EntryOf(data) IN
         IF e.k # "dict" THEN 77
         ELSE IF BadName(e.name) THEN 88
         ELSE IF e.name.s \in DOMAIN cb THEN 92
         ELSE 0

\* lines 70-92: the checks up to and including the uniqueness check.
\* The line of the rejection, or 0 when the request passes.
CreateCheck(data, cb) ==
    IF data.k # "dict" THEN 72
    ELSE LET e == EntryOf(data) IN
         IF e.k # "dict" THEN 77
         ELSE IF ~(IsStr(e.type) /\ e.type.s \in {TypeRecipe, TypeIngredient}) THEN 84
         ELSE IF BadName(e.name) THEN 88
         ELSE IF e.name.s \in DOMAIN cb THEN 92
         ELSE 0

\* ParseItems without the seen_names test of line 125.
RECURSIVE ParseItemsNoSeen(_, _, _, _)
ParseItemsNoSeen(items, idx, seen_names, parsed_items) ==
    IF idx > Len(items) THEN [line |-> 0, items |-> parsed_items]
    ELSE LET item == items[idx] IN
         IF item.k # "dict" THEN [line |-> 114, items |-> <<>>]
         ELSE IF BadName(item.name) THEN [line |-> 120, items |-> <<>>]
         ELSE IF ~IsInt(item.quantity) THEN [line |-> 122, items |-> <<>>]
         ELSE ParseItemsNoSeen(items, idx + 1, seen_names \cup {item.name.s},
                               Append(parsed_items,
                                      RequiredItem(item.name.s, item.quantity)))

\* lines 112-129: the loop over requiredItems, from element idx on.
RECURSIVE ParseItems(_, _, _, _)
ParseItems(items, idx, seen_names, parsed_items) ==
    IF idx > Len(items) THEN [line |-> 0, items |-> parsed_items]
    ELSE LET item == items[idx] IN
         IF item.k # "dict" THEN [line |-> 114, items |-> <<>>]
         ELSE IF BadName(item.name) THEN [line |-> 120, items |-> <<>>]
         ELSE IF ~IsInt(item.quantity) THEN [line |-> 122, items |-> <<>>]
         ELSE IF item.name.s \in seen_names THEN [line |-> 126, items |-> <<>>]
         ELSE ParseItems(items, idx + 1, seen_names \cup {item.name.s},
                         Append(parsed_items, RequiredItem(item.name.s, item.quantity)))

\* CreateStore that keeps the elements parsed before a bad one.
CreateStorePartial(e) ==
    IF e.type.s = TypeIngredient THEN
        IF ~IsInt(e.cookTime) \/ e.cookTime.i < 0
        THEN [resp |-> Reject(99), stored |-> <<>>]
        ELSE [resp |-> Created(102), stored |-> <<Ingredient(e.name.s, e.cookTime)>>]
    ELSE IF e.requiredItems.k # "list" THEN [resp |-> Reject(107), stored |-> <<>>]
    ELSE LET p == ParseItems(e.requiredItems.items, 1, {}, <<>>) IN
         IF p.line # 0
         THEN [resp |-> Reject(p.line), stored |-> <<Recipe(e.name.s, p.items)>>]
         ELSE [resp |-> Created(132), stored |-> <<Recipe(e.name.s, p.items)>>]

\* CreateStore that accepts a recipe only when the names it requires are stored.
CreateStoreKnownItems(e) ==
    IF e.type.s = TypeIngredient THEN
        IF ~IsInt(e.cookTime) \/ e.cookTime.i < 0
        THEN [resp |-> Reject(99), stored |-> <<>>]
        ELSE [resp |-> Created(102), stored |-> <<Ingredient(e.name.s, e.cookTime)>>]
    ELSE IF e.requiredItems.k # "list" THEN [resp |-> Reject(107), stored |-> <<>>]
    ELSE LET p == ParseItems(e.requiredItems.items, 1, {}, <<>>) IN
         IF p.line # 0 THEN [resp |-> Reject(p.line), stored |-> <<>>]
         ELSE IF \E j \in 1..Len(p.items) : p.items[j].name \notin DOMAIN cookbook
         THEN [resp |-> Reject(126), stored |-> <<>>]
         ELSE [resp |-> Created(132), stored |-> <<Recipe(e.name.s, p.items)>>]

\* lines 94-132: the rest of the handler. `stored` holds the new entry, if any.
CreateStore(e) ==
    IF e.type.s = TypeIngredient THEN
        IF ~IsInt(e.cookTime) \/ e.cookTime.i < 0
        THEN [resp |-> Reject(99), stored |-> <<>>]
        ELSE [resp |-> Created(102), stored |-> <<Ingredient(e.name.s, e.cookTime)>>]
    ELSE IF e.requiredItems.k # "list" THEN [resp |-> Reject(107), stored |-> <<>>]
    ELSE LET p == ParseItems(e.requiredItems.items, 1, {}, <<>>) IN
         IF p.line # 0 THEN [resp |-> Reject(p.line), stored |-> <<>>]
         ELSE [resp |-> Created(132), stored |-> <<Recipe(e.name.s, p.items)>>]

\* cookbook[name] = ...
Put(cb, stored) ==
    IF stored = <<>> THEN cb ELSE (stored[1].name :> stored[1]) @@ cb

(***************************************************************************)
(* _expand_to_ingredients and summary                                      *)
(***************************************************************************)
\* One pending call _expand_to_ingredients(entry_name, multiplier, acc) at the given
\* call depth; int_quantity is the isinstance test of line 160 on the item it came from.
Call(n, m, d, isint) == [entry_name |-> n, multiplier |-> m, depth |-> d,
                         int_quantity |-> isint]

\* AccAdd that moves a name it meets again to the end of the dict.
AccAddMoveLast(a, n, m) ==
    IF \E j \in 1..Len(a) : a[j].name = n
    THEN LET j == CHOOSE j \in 1..Len(a) : a[j].name = n IN
         Append(SelectSeq(a, LAMBDA x : x.name # n),
                [name |-> n, quantity |-> a[j].quantity + m])
    ELSE Append(a, [name |-> n, quantity |-> m])

\* acc[name] = acc.get(name, 0) + multiplier, on an insertion-ordered dict
AccAdd(a, n, m) ==
    IF \E j \in 1..Len(a) : a[j].name = n
    THEN [j \in 1..Len(a) |->
             IF a[j].name = n THEN [a[j] EXCEPT !.quantity = @ + m] ELSE a[j]]
    ELSE Append(a, [name |-> n, quantity |-> m])

\* ExpandInit with an accumulator that outlives the call instead of a fresh dict.
ExpandInitShared(n) == [status |-> "run", stack |-> <<Call(n, 1, 1, TRUE)>>,
                        acc |-> acc[Worker], total |-> 0]

\* line 186 and the first call of line 187
ExpandInit(n) == [status |-> "run", stack |-> <<Call(n, 1, 1, TRUE)>>, acc |-> <<>>,
                  total |-> 0]

\* Children that passes each quantity on without the multiplier of the recipe.
ChildrenFlat(e, m, d) ==
    [j \in 1..Len(e.required_items) |->
        LET r == e.required_items[j] IN
        Call(r.name, r.quantity.i, d + 1, IsInt(r.quantity))]

\* The calls a recipe makes, in the order of its required_items (line 158-162).
Children(e, m, d) ==
    [j \in 1..Len(e.required_items) |->
        LET r == e.required_items[j] IN
        Call(r.name, m * r.quantity.i, d + 1, IsInt(r.quantity))]

\* Visit that skips a name that is not stored instead of raising.
VisitSkipMissing(cb, st) ==
    LET c == Head(st.stack)
        rest == Tail(st.stack)
    IN
    IF ~c.int_quantity THEN [st EXCEPT !.status = "fail"]
    ELSE IF c.depth > RecursionLimit THEN [st EXCEPT !.status = "fail"]
    ELSE IF c.entry_name \notin DOMAIN cb
    THEN [st EXCEPT !.status = IF rest = <<>> THEN "ok" ELSE "run", !.stack = rest]
    ELSE LET e == cb[c.entry_name] IN
         IF IsIngredient(e) THEN
             [status |-> IF rest = <<>> THEN "ok" ELSE "run",
              stack  |-> rest,
              acc    |-> AccAdd(st.acc, e.name, c.multiplier),
              total  |-> st.total + e.cook_time.i * c.multiplier]
         ELSE LET more == Children(e, c.multiplier, c.depth) \o rest IN
              [st EXCEPT !.status = IF more = <<>> THEN "ok" ELSE "run", !.stack = more]

\* Visit that stops descending at the depth limit instead of raising.
VisitTruncate(cb, st) ==
    LET c == Head(st.stack)
        rest == Tail(st.stack)
    IN
    IF ~c.int_quantity THEN [st EXCEPT !.status = "fail"]
    ELSE IF c.depth > RecursionLimit
    THEN [st EXCEPT !.status = IF rest = <<>> THEN "ok" ELSE "run", !.stack = rest]
    ELSE IF c.entry_name \notin DOMAIN cb THEN [st EXCEPT !.status = "fail"]
    ELSE LET e == cb[c.entry_name] IN
         IF IsIngredient(e) THEN
             [status |-> IF rest = <<>> THEN "ok" ELSE "run",
              stack  |-> rest,
              acc    |-> AccAdd(st.acc, e.name, c.multiplier),
              total  |-> st.total + e.cook_time.i * c.multiplier]
         ELSE LET more == Children(e, c.multiplier, c.depth) \o rest IN
              [st EXCEPT !.status = IF more = <<>> THEN "ok" ELSE "run", !.stack = more]

\* One call of _expand_to_ingredients: the head of the stack is entered.
\* status "fail" stands for the exception that summary's handler catches (line 196).
Visit(cb, st) ==
    LET c == Head(st.stack) IN
    IF ~c.int_quantity THEN [st EXCEPT !.status = "fail"]
    ELSE IF c.depth > RecursionLimit THEN [st EXCEPT !.status = "fail"]
    ELSE IF c.entry_name \notin DOMAIN cb THEN [st EXCEPT !.status = "fail"]
    ELSE LET e == cb[c.entry_name] IN
         IF IsIngredient(e) THEN
             LET rest == Tail(st.stack) IN
             [status |-> IF rest = <<>> THEN "ok" ELSE "run",
              stack  |-> rest,
              acc    |-> AccAdd(st.acc, e.name, c.multiplier),
              total  |-> st.total + e.cook_time.i * c.multiplier]
         ELSE IF IsRecipe(e) THEN
             LET rest == Children(e, c.multiplier, c.depth) \o Tail(st.stack) IN
             [st EXCEPT !.status = IF rest = <<>> THEN "ok" ELSE "run", !.stack = rest]
         ELSE [st EXCEPT !.status = "fail"]

\* The whole recursion, run to its end.
RECURSIVE Expand(_, _)
Expand(cb, st) == IF st.status # "run" THEN st ELSE Expand(cb, Visit(cb, st))

\* SummaryCheck that only asks whether the name is stored.
SummaryCheckNoType(name, cb) ==
    IF ~IsStr(name) \/ Len(name.s) = 0 \/ Len(Strip(name.s)) = 0 THEN 172
    ELSE IF name.s \notin DOMAIN cb THEN 176
    ELSE 0

\* lines 170-183: the line of the rejection, or 0 when the name is a stored recipe
SummaryCheck(name, cb) ==
    IF ~IsStr(name) \/ Len(name.s) = 0 \/ Len(Strip(name.s)) = 0 THEN 172
    ELSE IF name.s \notin DOMAIN cb THEN 176
    ELSE IF IsIngredient(cb[name.s]) THEN 180
    ELSE IF ~IsRecipe(cb[name.s]) THEN 183
    ELSE 0

\* SummaryResponse that lists only the ingredients of positive quantity.
SummaryResponseFiltered(name, st) ==
    IF st.status = "ok"
    THEN [status |-> 200, line |-> 194, kind |-> "summary", name |-> name.s,
          cookTime |-> st.total,
          ingredients |-> SelectSeq(st.acc, LAMBDA x : x.quantity > 0)]
    ELSE Reject(197)

\* lines 189-197: the response built from the finished expansion
SummaryResponse(name, st) ==
    IF st.status = "ok"
    THEN [status |-> 200, line |-> 194, kind |-> "summary", name |-> name.s,
          cookTime |-> st.total, ingredients |-> st.acc]
    ELSE Reject(197)

(***************************************************************************)
(* The requests the clients send.                                          *)
(***************************************************************************)
A == <<"a">>
B == <<"b">>
C == <<"c">>
Names == {A, B, C}
\* Recipes are sent under the names a and b, ingredients under b and c.
RecipeNames     == {A, B}
IngredientNames == {B, C}

Quantities == {0, MaxQuantity}
CookTimes  == {0, MaxCookTime}

Blank == <<" ">>

\* an element of requiredItems
Item(n, q) == [k |-> "dict", name |-> n, quantity |-> q]
GoodItems  == {Item(JStr(n), JInt(q)) : n \in Names, q \in Quantities}
BadItems   == {[k |-> "str", name |-> JNull, quantity |-> JNull],
               Item(JStr(Blank), JInt(MaxQuantity)),
               Item(JNull, JInt(MaxQuantity)),
               Item(JStr(C), JStr(<<"2">>)),
               Item(JStr(C), JNull)}

\* requiredItems: a list of at most two elements, or not a list
ListOf(items) == [k |-> "list", items |-> items]
NoList        == [k |-> "null", items |-> <<>>]
\* every list of good elements, and the lists with one bad element, in either place
ItemLists     ==
    {ListOf(<<>>)} \cup {ListOf(<<x>>) : x \in GoodItems \cup BadItems}
        \cup {ListOf(<<x, y>>) : x \in GoodItems, y \in GoodItems}
        \cup {ListOf(<<Item(JStr(C), JInt(MaxQuantity)), y>>) : y \in BadItems}
        \cup {ListOf(<<x, Item(JStr(C), JInt(MaxQuantity))>>) : x \in BadItems}

\* a JSON object sent as the entry itself
Obj(ty, n, ct, ri) == [k |-> "dict", entry |-> <<>>, type |-> ty, name |-> n,
                       cookTime |-> ct, requiredItems |-> ri]
\* the same object sent as {"entry": {...}}
Wrapped(d) == [k |-> "dict",
               entry |-> <<[k |-> d.k, type |-> d.type, name |-> d.name,
                            cookTime |-> d.cookTime, requiredItems |-> d.requiredItems]>>,
               type |-> JNull, name |-> JNull, cookTime |-> JNull,
               requiredItems |-> NoList]
\* a body that is no JSON object
NotAnObject == [k |-> "list", entry |-> <<>>, type |-> JNull, name |-> JNull,
                cookTime |-> JNull, requiredItems |-> NoList]

IngredientPayloads ==
    {Obj(JStr(TypeIngredient), JStr(n), ct, NoList) :
        n \in IngredientNames,
        ct \in {JInt(c) : c \in CookTimes \cup {-1}} \cup {JStr(<<"3">>), JNull}}
        \cup {Obj(JStr(TypeIngredient), JStr(C), JBool(TRUE), NoList)}
RecipePayloads ==
    {Obj(JStr(TypeRecipe), JStr(n), JNull, ri) : n \in RecipeNames, ri \in ItemLists}
        \cup {Obj(JStr(TypeRecipe), JStr(A), JNull, NoList)}
BadTypePayloads ==
    {Obj(ty, JStr(n), JInt(0), ListOf(<<>>)) :
        ty \in {JNull, JStr(<<"R", "e", "c", "i", "p", "e">>), JInt(1)}, n \in {A, C}}
BadNamePayloads ==
    {Obj(JStr(ty), n, JInt(0), ListOf(<<>>)) :
        ty \in {TypeRecipe, TypeIngredient},
        n \in {JNull, JInt(1), JStr(<<>>), JStr(Blank)}}
WrappedPayloads ==
    {Wrapped(Obj(JStr(TypeIngredient), JStr(C), JInt(MaxCookTime), NoList)),
     Wrapped(Obj(JStr(TypeRecipe), JStr(A), JNull,
                 ListOf(<<Item(JStr(C), JInt(MaxQuantity))>>))),
     Wrapped(Obj(JNull, JStr(A), JNull, ListOf(<<>>)))}
Payloads ==
    IngredientPayloads \cup RecipePayloads \cup BadTypePayloads \cup BadNamePayloads
        \cup WrappedPayloads \cup {NotAnObject}

\* the `name` argument of GET /summary; JNull when it is missing
SummaryArgs == {JStr(n) : n \in Names \cup {<<"z">>, <<>>, Blank}} \cup {JNull}

\* The requests sent while other requests are running.
ConcPayloads ==
    {Obj(JStr(TypeRecipe), JStr(A), JNull,
         ListOf(<<Item(JStr(C), JInt(MaxQuantity)), Item(JStr(B), JInt(MaxQuantity))>>)),
     Obj(JStr(TypeRecipe), JStr(B), JNull, ListOf(<<Item(JStr(C), JInt(MaxQuantity))>>)),
     Obj(JStr(TypeIngredient), JStr(C), JInt(0), NoList),
     Obj(JStr(TypeIngredient), JStr(C), JInt(MaxCookTime), NoList),
     Obj(JStr(TypeIngredient), JStr(C), JInt(-1), NoList)}
ConcSummaryArgs == {JStr(A), JStr(C)}

(***************************************************************************)
(* The state machine.                                                      *)
(***************************************************************************)
Init ==
    /\ cookbook = <<>>
    /\ pc = [t \in Threads |-> "idle"]
    /\ req = [t \in Threads |-> NoReq]
    /\ resp = [t \in Threads |-> NoResp]
    /\ entry = [t \in Threads |-> <<>>]
    /\ stack = [t \in Threads |-> <<>>]
    /\ acc = [t \in Threads |-> <<>>]
    /\ total = [t \in Threads |-> 0]
    /\ history = [t \in Threads |-> {}]

CreateReq(data) ==
    IF data.k = "dict"
    THEN [op |-> "create", name |-> EntryOf(data).name, type |-> EntryOf(data).type,
          own |-> data.type, nth |-> 1]
    ELSE [op |-> "create", name |-> JNull, type |-> JNull, own |-> JNull, nth |-> 1]
SummaryReq(name) ==
    [op |-> "summary", name |-> name, type |-> JNull, own |-> JNull, nth |-> 1]

\* The whole of create_entry on one request body.
CreateResult(data, cb) ==
    LET l == CreateCheck(data, cb) IN
    IF l # 0 THEN [resp |-> Reject(l), stored |-> <<>>] ELSE CreateStore(EntryOf(data))

\* The whole of summary on one `name` argument: the response and the locals at return.
SummaryResult(name, cb) ==
    LET l == SummaryCheck(name, cb) IN
    IF l # 0 THEN [resp |-> Reject(l), st |-> [ExpandInit(<<>>) EXCEPT !.stack = <<>>]]
    ELSE LET st == Expand(cb, ExpandInit(name.s)) IN
         [resp |-> SummaryResponse(name, st), st |-> st]

Quiet(t) == \A u \in Threads \ {t} : pc[u] = "idle"

\* POST /entry, handled as a whole.
CreateEntry(t, data) ==
    /\ pc[t] = "idle" /\ Quiet(t)
    /\ LET out == CreateResult(data, cookbook) IN
       /\ cookbook' = Put(cookbook, out.stored)
       /\ resp' = [resp EXCEPT ![t] = out.resp]
    /\ req' = [req EXCEPT ![t] = CreateReq(data)]
    /\ pc' = [pc EXCEPT ![t] = "done"]
    /\ UNCHANGED <<entry, stack, acc, total, history>>

RunSummary(t, name, nth) ==
    LET out == SummaryResult(name, cookbook) IN
    /\ resp' = [resp EXCEPT ![t] = out.resp]
    /\ stack' = [stack EXCEPT ![t] = out.st.stack]
    /\ acc' = [acc EXCEPT ![t] = out.st.acc]
    /\ total' = [total EXCEPT ![t] = out.st.total]
    /\ req' = [req EXCEPT ![t] = [SummaryReq(name) EXCEPT !.nth = nth]]
    /\ pc' = [pc EXCEPT ![t] = "done"]
    /\ history' = [history EXCEPT ![t] = {cookbook}]
    /\ UNCHANGED <<cookbook, entry>>

\* GET /summary, handled as a whole.
Summary(t, name) ==
    /\ pc[t] = "idle" /\ Quiet(t)
    /\ RunSummary(t, name, 1)

\* The client sends the summary request it has just been answered once more.
SummaryAgain(t) ==
    /\ pc[t] = "done" /\ Quiet(t)
    /\ req[t].op = "summary" /\ req[t].nth = 1
    /\ RunSummary(t, req[t].name, 2)

\* The response is delivered; the handler's locals are gone.
Return(t) ==
    /\ pc[t] = "done"
    /\ pc' = [pc EXCEPT ![t] = "idle"]
    /\ req' = [req EXCEPT ![t] = NoReq]
    /\ resp' = [resp EXCEPT ![t] = NoResp]
    /\ entry' = [entry EXCEPT ![t] = <<>>]
    /\ stack' = [stack EXCEPT ![t] = <<>>]
    /\ acc' = [acc EXCEPT ![t] = <<>>]
    /\ total' = [total EXCEPT ![t] = 0]
    /\ history' = [history EXCEPT ![t] = {}]
    /\ UNCHANGED cookbook

Next ==
    \E t \in {Worker} :
        \/ \E data \in Payloads : CreateEntry(t, data)
        \/ \E name \in SummaryArgs : Summary(t, name)
        \/ SummaryAgain(t)
        \/ Return(t)

Spec == Init /\ [][Next]_vars

(***************************************************************************)
(* The same handlers on concurrent threads. A step is the code from one    *)
(* access to the shared cookbook up to the next.                           *)
(***************************************************************************)
\* create_entry, lines 70-92: the request is read and checked against the cookbook.
CreateBegin(t, data) ==
    /\ pc[t] = "idle"
    /\ req' = [req EXCEPT ![t] = CreateReq(data)]
    /\ LET l == CreateCheck(data, cookbook) IN
       IF l # 0
       THEN /\ pc' = [pc EXCEPT ![t] = "done"]
            /\ resp' = [resp EXCEPT ![t] = Reject(l)]
            /\ UNCHANGED entry
       ELSE /\ pc' = [pc EXCEPT ![t] = "store"]
            /\ entry' = [entry EXCEPT ![t] = <<EntryOf(data)>>]
            /\ UNCHANGED resp
    /\ UNCHANGED <<cookbook, stack, acc, total, history>>

\* create_entry, lines 94-132: the entry is built and written, without a second check.
CreateWrite(t) ==
    /\ pc[t] = "store"
    /\ LET out == CreateStore(entry[t][1]) IN
       /\ cookbook' = Put(cookbook, out.stored)
       /\ resp' = [resp EXCEPT ![t] = out.resp]
    /\ pc' = [pc EXCEPT ![t] = "done"]
    /\ history' = [u \in Threads |->
                       IF pc[u] = "expand" THEN history[u] \cup {cookbook'}
                       ELSE history[u]]
    /\ UNCHANGED <<req, entry, stack, acc, total>>

\* summary, lines 170-187: the name is checked against the cookbook and the
\* expansion is set up.
SummaryBegin(t, name) ==
    /\ pc[t] = "idle"
    /\ req' = [req EXCEPT ![t] = SummaryReq(name)]
    /\ LET l == SummaryCheck(name, cookbook) IN
       IF l # 0
       THEN /\ pc' = [pc EXCEPT ![t] = "done"]
            /\ resp' = [resp EXCEPT ![t] = Reject(l)]
            /\ UNCHANGED <<stack, acc, total>>
       ELSE /\ pc' = [pc EXCEPT ![t] = "expand"]
            /\ stack' = [stack EXCEPT ![t] = ExpandInit(name.s).stack]
            /\ acc' = [acc EXCEPT ![t] = ExpandInit(name.s).acc]
            /\ total' = [total EXCEPT ![t] = ExpandInit(name.s).total]
            /\ UNCHANGED resp
    /\ history' = [history EXCEPT ![t] = {cookbook}]
    /\ UNCHANGED <<cookbook, entry>>

\* _expand_to_ingredients, lines 145-163: one call looks its entry up in the cookbook.
\* After the last one summary builds its response (lines 189-197).
SummaryVisit(t) ==
    /\ pc[t] = "expand"
    /\ LET st == Visit(cookbook, [status |-> "run", stack |-> stack[t], acc |-> acc[t],
                                  total |-> total[t]]) IN
       /\ stack' = [stack EXCEPT ![t] = st.stack]
       /\ acc' = [acc EXCEPT ![t] = st.acc]
       /\ total' = [total EXCEPT ![t] = st.total]
       /\ IF st.status = "run"
          THEN UNCHANGED <<pc, resp>>
          ELSE /\ pc' = [pc EXCEPT ![t] = "done"]
               /\ resp' = [resp EXCEPT ![t] = SummaryResponse(req[t].name, st)]
    /\ UNCHANGED <<cookbook, req, entry, history>>

ConcNext ==
    \E t \in Threads :
        \/ \E data \in ConcPayloads : CreateBegin(t, data)
        \/ CreateWrite(t)
        \/ \E name \in ConcSummaryArgs : SummaryBegin(t, name)
        \/ SummaryVisit(t)
        \/ Return(t)

ConcSpec == Init /\ [][ConcNext]_vars

(***************************************************************************)
(* parse_handwriting and the /parse route.                                 *)
(***************************************************************************)
Lowers == <<"a", "b", "c", "d", "e", "f", "g", "h", "i", "j", "k", "l", "m",
            "n", "o", "p", "q", "r", "s", "t", "u", "v", "w", "x", "y", "z">>
Uppers == <<"A", "B", "C", "D", "E", "F", "G", "H", "I", "J", "K", "L", "M",
            "N", "O", "P", "Q", "R", "S", "T", "U", "V", "W", "X", "Y", "Z">>
\* [A-Za-z]
IsLetter(c) == \E i \in 1..26 : c = Lowers[i] \/ c = Uppers[i]
\* str.upper() and str.lower() on one character
ToUpper(c) == IF \E i \in 1..26 : c = Lowers[i]
              THEN Uppers[CHOOSE i \in 1..26 : c = Lowers[i]] ELSE c
ToLower(c) == IF \E i \in 1..26 : c = Uppers[i]
              THEN Lowers[CHOOSE i \in 1..26 : c = Uppers[i]] ELSE c

\* str.replace(old, new) for single characters
Replace(x, old, new) == [i \in 1..Len(x) |-> IF x[i] = old THEN new ELSE x[i]]

\* RemoveNonLetters that keeps the digit 2.
RemoveKeepDigits(x) == SelectSeq(x, LAMBDA c : IsLetter(c) \/ IsSpace(c) \/ c = "2")

\* RemoveNonLetters that puts a space where it removes a character.
RemoveAsSpace(x) ==
    [i \in 1..Len(x) |-> IF IsLetter(x[i]) \/ IsSpace(x[i]) THEN x[i] ELSE " "]

\* line 49: re.sub(r'[^A-Za-z\s]', '', s)
RemoveNonLetters(x) == SelectSeq(x, LAMBDA c : IsLetter(c) \/ IsSpace(c))

\* line 52: re.sub(r'\s+', ' ', s), each maximal run of whitespace becomes one space
RECURSIVE SquashSpaces(_)
SquashSpaces(x) ==
    IF x = <<>> THEN <<>>
    ELSE IF IsSpace(Head(x)) THEN <<" ">> \o SquashSpaces(LStrip(x))
    ELSE <<Head(x)>> \o SquashSpaces(Tail(x))

\* line 59: s.split(' '); two spaces in a row give an empty word
RECURSIVE SplitFrom(_, _)
SplitFrom(x, word) ==
    IF x = <<>> THEN <<word>>
    ELSE IF Head(x) = " " THEN <<word>> \o SplitFrom(Tail(x), <<>>)
    ELSE SplitFrom(Tail(x), Append(word, Head(x)))
Split(x) == SplitFrom(x, <<>>)

\* line 60: w[:1].upper() + w[1:].lower() if w else ''
Capitalise(w) ==
    [i \in 1..Len(w) |-> IF i = 1 THEN ToUpper(w[i]) ELSE ToLower(w[i])]

\* line 61: ' '.join(words)
RECURSIVE Join(_)
Join(words) ==
    IF words = <<>> THEN <<>>
    ELSE IF Len(words) = 1 THEN words[1]
    ELSE words[1] \o <<" ">> \o Join(Tail(words))

\* parse_handwriting: is_none tells the return of line 56 from that of line 61
parse_handwriting(recipeName) ==
    LET s1 == Replace(Replace(recipeName, "-", " "), "_", " ")
        s2 == RemoveNonLetters(s1)
        s3 == Strip(SquashSpaces(s2))
        words == Split(s3)
    IN  IF Len(s3) = 0 THEN [is_none |-> TRUE, value |-> <<>>]
        ELSE [is_none |-> FALSE,
              value |-> Join([i \in 1..Len(words) |-> Capitalise(words[i])])]

\* the characters the client types: letters of either case, the separators, a digit
Alphabet == {"a", "B", "-", "_", " ", "\t", "2"}
\* the strings sent as `input`, the empty one when the field is missing (line 37)
ParseInputs == UNION {[1..n -> Alphabet] : n \in 0..MaxLen}

ParseReq(input) ==
    [op |-> "parse", name |-> JStr(input), type |-> JNull, own |-> JNull, nth |-> 1]
\* lines 39-41
ParseResponse(parsed_name) ==
    IF parsed_name.is_none THEN Reject(40)
    ELSE [status |-> 200, line |-> 41, kind |-> "msg", name |-> parsed_name.value,
          cookTime |-> 0, ingredients |-> <<>>]

\* POST /parse, handled as a whole.
Parse(t, input) ==
    /\ pc[t] = "idle" /\ Quiet(t)
    /\ req' = [req EXCEPT ![t] = ParseReq(input)]
    /\ resp' = [resp EXCEPT ![t] = ParseResponse(parse_handwriting(input))]
    /\ pc' = [pc EXCEPT ![t] = "done"]
    /\ UNCHANGED <<cookbook, entry, stack, acc, total, history>>

ParseNext ==
    \E t \in {Worker} :
        \/ pc[t] = "idle" /\ \E input \in ParseInputs : Parse(t, input)
        \/ Return(t)

ParseSpec == Init /\ [][ParseNext]_vars

(***************************************************************************)
(* The cookbook handlers, one request at a time, on recipes two levels     *)
(* deep over two base ingredients, with negative quantities among them.    *)
(***************************************************************************)
D == <<"d">>
WideQuantities == {-1, 0, MaxQuantity}
WideItems(names) == {Item(JStr(n), JInt(q)) : n \in names, q \in WideQuantities}
\* the lists of one or two elements with distinct names out of `names`
WideLists(names) ==
    {ListOf(<<x>>) : x \in WideItems(names)}
        \cup {ListOf(<<q[1], q[2]>>) :
                 q \in {z \in WideItems(names) \X WideItems(names) :
                           z[1].name # z[2].name}}
\* a requires b, c, d; b is a recipe over c and d, or an ingredient; c and d are
\* ingredients
WidePayloads ==
    {Obj(JStr(TypeRecipe), JStr(A), JNull, ri) : ri \in WideLists({B, C, D})}
        \cup {Obj(JStr(TypeRecipe), JStr(B), JNull, ri) : ri \in WideLists({C, D})}
        \cup {Obj(JStr(TypeIngredient), JStr(B), JInt(MaxCookTime), NoList),
              Obj(JStr(TypeIngredient), JStr(C), JInt(MaxCookTime), NoList),
              Obj(JStr(TypeIngredient), JStr(D), JInt(1), NoList)}
WideSummaryArgs == {JStr(A), JStr(B), JStr(C)}

WideNext ==
    \E t \in {Worker} :
        \/ pc[t] = "idle" /\ \E data \in WidePayloads : CreateEntry(t, data)
        \/ pc[t] = "idle" /\ \E name \in WideSummaryArgs : Summary(t, name)
        \/ SummaryAgain(t)
        \/ Return(t)

WideSpec == Init /\ [][WideNext]_vars

(***************************************************************************)
(* The recipe graph of a store, as the claims speak of it.                 *)
(***************************************************************************)
\* the names a stored recipe requires
Requires(cb, n) ==
    IF n \in DOMAIN cb /\ IsRecipe(cb[n])
    THEN {cb[n].required_items[j].name : j \in 1..Len(cb[n].required_items)}
    ELSE {}

RECURSIVE Closure(_, _)
Closure(cb, S) ==
    LET T == S \cup UNION {Requires(cb, n) : n \in S} IN
    IF T = S THEN S ELSE Closure(cb, T)

\* the names reachable from n through one or more requiredItems
Reachable(cb, n) == Closure(cb, Requires(cb, n))

OnCycle(cb, n) == n \in Reachable(cb, n)
\* a cycle can be reached from n
CycleFrom(cb, n) == \E m \in Reachable(cb, n) \cup {n} : OnCycle(cb, m)
\* a name reachable from n is not stored
MissingFrom(cb, n) == \E m \in Reachable(cb, n) : m \notin DOMAIN cb

ReachableIngredients(cb, n) ==
    {m \in Reachable(cb, n) : m \in DOMAIN cb /\ IsIngredient(cb[m])}

\* the quantity on the edge u -> v
EdgeQuantity(cb, u, v) ==
    LET its == cb[u].required_items
        j == CHOOSE j \in 1..Len(its) : its[j].name = v
    IN its[j].quantity.i

\* the paths from u to v, as sequences of stored names
Paths(cb, u, v) ==
    {p \in UNION {[1..len -> DOMAIN cb] : len \in 2..Cardinality(DOMAIN cb)} :
        /\ p[1] = u
        /\ p[Len(p)] = v
        /\ \A j \in 1..(Len(p) - 1) : p[j + 1] \in Requires(cb, p[j])}

RECURSIVE PathProduct(_, _)
PathProduct(cb, p) ==
    IF Len(p) < 2 THEN 1
    ELSE EdgeQuantity(cb, p[1], p[2]) * PathProduct(cb, Tail(p))

RECURSIVE SumProducts(_, _)
SumProducts(cb, ps) ==
    IF ps = {} THEN 0
    ELSE LET p == CHOOSE q \in ps : TRUE IN
         PathProduct(cb, p) + SumProducts(cb, ps \ {p})

\* the sum over all paths from u to v of the product of the quantities on the path
PathQuantity(cb, u, v) == SumProducts(cb, Paths(cb, u, v))

RECURSIVE SumCookTime(_, _, _)
SumCookTime(cb, u, ings) ==
    IF ings = {} THEN 0
    ELSE LET v == CHOOSE w \in ings : TRUE IN
         cb[v].cook_time.i * PathQuantity(cb, u, v) + SumCookTime(cb, u, ings \ {v})

\* thread t has been answered a summary request for the stored recipe n
SummaryDone(t, n) ==
    /\ pc[t] = "done"
    /\ req[t].op = "summary" /\ req[t].name = JStr(n)
    /\ n \in DOMAIN cookbook
    /\ IsRecipe(cookbook[n])

\* a response without a body: no name, no cook time, no ingredient list
Bodyless(r) ==
    r.status = 400 /\ r.kind = "none" /\ r.name = <<>> /\ r.cookTime = 0
        /\ r.ingredients = <<>>

CreateStep(t) == pc[t] = "idle" /\ pc'[t] = "done" /\ req'[t].op = "create"
\* thread t takes a step that handles a summary request as a whole
SummaryStep(t) == req'[t].op = "summary" /\ req'[t].nth = req[t].nth + 1

(***************************************************************************)
(* C2: a create_entry request whose name is already stored is rejected,    *)
(* whatever the types of the stored and of the new entry, and the cookbook *)
(* is left as it was.                                                      *)
(***************************************************************************)
C2_DuplicateRejected ==
    [][\A t \in Threads :
          (CreateStep(t) /\ IsStr(req'[t].name) /\ req'[t].name.s \in DOMAIN cookbook)
              => (resp'[t].status = 400 /\ cookbook' = cookbook)]_vars

\* an ingredient sent under the name of a stored recipe has been rejected
C2_Witness ==
    \E t \in Threads :
        /\ pc[t] = "done" /\ req[t].op = "create" /\ resp[t].line = 92
        /\ req[t].type.s = TypeIngredient
        /\ IsRecipe(cookbook[req[t].name.s])

(***************************************************************************)
(* C3: when a name reachable from the recipe is not stored, summary fails  *)
(* as a whole: the response has no name, no cookTime and no ingredient     *)
(* list, whatever had been accumulated before the missing name was met.    *)
(***************************************************************************)
C3_NoPartialResult ==
    \A t \in Threads : \A n \in Names :
        (SummaryDone(t, n) /\ MissingFrom(cookbook, n)) => Bodyless(resp[t])

\* the expansion met a missing name with multiplier 0 after it had accumulated
\* an ingredient
C3_Witness ==
    \E t \in Threads : \E n \in Names :
        /\ SummaryDone(t, n) /\ Bodyless(resp[t])
        /\ acc[t] # <<>>
        /\ stack[t] # <<>>
        /\ Head(stack[t]).entry_name \notin DOMAIN cookbook
        /\ Head(stack[t]).multiplier = 0

(***************************************************************************)
(* C4: summary of a recipe from which a cycle can be reached ends with a   *)
(* failure response and never with a result; the recursion stops one call  *)
(* past the depth limit.                                                   *)
(***************************************************************************)
C4_CycleFails ==
    \A t \in Threads :
        /\ \A j \in 1..Len(stack[t]) : stack[t][j].depth <= RecursionLimit + 1
        /\ \A n \in Names :
               (SummaryDone(t, n) /\ CycleFrom(cookbook, n)) => Bodyless(resp[t])

\* every name is stored and the expansion was stopped by the depth limit
C4_Witness ==
    \E t \in Threads : \E n \in Names :
        /\ SummaryDone(t, n) /\ CycleFrom(cookbook, n) /\ ~MissingFrom(cookbook, n)
        /\ resp[t].status = 400
        /\ stack[t] # <<>>
        /\ Head(stack[t]).depth > RecursionLimit

(***************************************************************************)
(* C5: no insertion into the cookbook takes effect between the first and   *)
(* the last cookbook lookup of one summary call. (A thread at "expand" has *)
(* made its first lookup and has at least one more to make.)               *)
(***************************************************************************)
C5_StableDuringExpansion ==
    [][(\E t \in Threads : pc[t] = "expand") => cookbook' = cookbook]_vars

(***************************************************************************)
(* C6: a stored entry is never overwritten, and a create_entry request     *)
(* succeeds only when its name was not stored at the moment of its write.  *)
(***************************************************************************)
C6_CheckAndWriteAtomic ==
    [][/\ \A n \in DOMAIN cookbook :
              n \in DOMAIN cookbook' /\ cookbook'[n] = cookbook[n]
       /\ \A t \in Threads :
              (pc[t] = "store" /\ pc'[t] = "done" /\ resp'[t].status = 200)
                  => req[t].name.s \notin DOMAIN cookbook]_vars

(***************************************************************************)
(* C7: a rejected create_entry request leaves the cookbook as it was; an   *)
(* accepted one adds exactly one new key, the name of the request, and     *)
(* leaves every other entry as it was.                                     *)
(***************************************************************************)
C7_AtomicInsert ==
    [][\A t \in Threads :
          CreateStep(t) =>
              \/ resp'[t].status = 400 /\ cookbook' = cookbook
              \/ /\ resp'[t].status = 200
                 /\ IsStr(req'[t].name)
                 /\ req'[t].name.s \notin DOMAIN cookbook
                 /\ DOMAIN cookbook' = DOMAIN cookbook \cup {req'[t].name.s}
                 /\ \A m \in DOMAIN cookbook : cookbook'[m] = cookbook[m]]_vars

\* a recipe was rejected for a duplicate element of requiredItems while the cookbook
\* held entries
C7_Witness ==
    \E t \in Threads :
        /\ pc[t] = "done" /\ req[t].op = "create"
        /\ resp[t].status = 400 /\ resp[t].line = 126
        /\ DOMAIN cookbook # {}

(***************************************************************************)
(* C8: summary never changes the cookbook, and the same summary request    *)
(* sent again on the same store is answered with the same response.        *)
(***************************************************************************)
C8_PureRead ==
    [][\A t \in Threads :
          SummaryStep(t) =>
              /\ cookbook' = cookbook
              /\ (req[t].op = "summary" /\ req'[t].name = req[t].name)
                     => resp'[t] = resp[t]]_vars

\* a summary that succeeded with ingredients has been asked a second time
C8_Witness ==
    \E t \in Threads :
        /\ pc[t] = "done" /\ req[t].op = "summary" /\ req[t].nth = 2
        /\ resp[t].status = 200 /\ resp[t].ingredients # <<>>

(***************************************************************************)
(* C9: summary fails without a body when the name is missing from the      *)
(* cookbook or is the name of an ingredient; it succeeds only for the name *)
(* of a stored recipe.                                                     *)
(***************************************************************************)
C9_OnlyRecipes ==
    \A t \in Threads :
        (pc[t] = "done" /\ req[t].op = "summary") =>
            LET nm == req[t].name IN
            /\ (~IsStr(nm) \/ nm.s \notin DOMAIN cookbook \/ IsIngredient(cookbook[nm.s]))
                   => Bodyless(resp[t])
            /\ resp[t].status = 200
                   => (IsStr(nm) /\ nm.s \in DOMAIN cookbook /\ IsRecipe(cookbook[nm.s]))

\* summary of the name of a stored ingredient has been rejected
C9_Witness ==
    \E t \in Threads :
        /\ pc[t] = "done" /\ req[t].op = "summary" /\ resp[t].line = 180
        /\ IsIngredient(cookbook[req[t].name.s])

(***************************************************************************)
(* C10: a well-formed recipe is accepted whether or not the names it       *)
(* requires are stored; summary of a stored recipe fails while a name      *)
(* reachable from it is missing and succeeds once they are all stored.     *)
(***************************************************************************)
\* the well-formed recipe requests: elements with pairwise distinct names
GoodRecipes ==
    {Obj(JStr(TypeRecipe), JStr(n), JNull, ListOf(l)) :
        n \in RecipeNames,
        l \in {<<>>} \cup {<<x>> : x \in GoodItems}
                \cup {<<q[1], q[2]>> :
                         q \in {z \in GoodItems \X GoodItems : z[1].name # z[2].name}}}

C10_RecipeAccepted ==
    \A d \in GoodRecipes :
        CreateResult(d, cookbook).resp.status = 200 <=> d.name.s \notin DOMAIN cookbook

\* C10 as stated: summary succeeds as soon as no reachable name is missing
C10_Original ==
    /\ C10_RecipeAccepted
    /\ \A n \in DOMAIN cookbook :
           IsRecipe(cookbook[n]) =>
               (SummaryResult(JStr(n), cookbook).resp.status = 200
                    <=> ~MissingFrom(cookbook, n))

\* C10 amended: ... and succeeds once they are all stored, unless a cycle can be
\* reached from the recipe
C10_ForwardReferences ==
    /\ C10_RecipeAccepted
    /\ \A n \in DOMAIN cookbook :
           IsRecipe(cookbook[n]) =>
               LET r == SummaryResult(JStr(n), cookbook).resp IN
               /\ MissingFrom(cookbook, n) => Bodyless(r)
               /\ (~MissingFrom(cookbook, n) /\ ~CycleFrom(cookbook, n)) => r.status = 200

\* an ingredient has just been inserted that a recipe stored before it requires, and
\* summary of that recipe now succeeds
C10_Witness ==
    \E t \in Threads : \E n \in DOMAIN cookbook :
        /\ pc[t] = "done" /\ req[t].op = "create" /\ resp[t].line = 102
        /\ IsRecipe(cookbook[n])
        /\ req[t].name.s \in Requires(cookbook, n)
        /\ SummaryResult(JStr(n), cookbook).resp.status = 200

(***************************************************************************)
(* C11: create_entry rejects a recipe whose requiredItems holds two        *)
(* elements with the same name, so the required_items of every stored      *)
(* Recipe have pairwise distinct names.                                    *)
(***************************************************************************)
\* the recipe requests whose two elements are well formed and share their name
DuplicateRecipes ==
    {Obj(JStr(TypeRecipe), JStr(n), JNull, ListOf(<<q[1], q[2]>>)) :
        n \in RecipeNames,
        q \in {z \in GoodItems \X GoodItems : z[1].name = z[2].name}}

DistinctItemNames(e) ==
    \A i, j \in 1..Len(e.required_items) :
        e.required_items[i].name = e.required_items[j].name => i = j

\* C11: a request with a repeated element name is rejected and stores nothing, and
\* no stored Recipe has two required_items of the same name
C11_DistinctRequiredItems ==
    /\ \A n \in DOMAIN cookbook : IsRecipe(cookbook[n]) => DistinctItemNames(cookbook[n])
    /\ \A d \in DuplicateRecipes :
           LET out == CreateResult(d, cookbook) IN
           out.resp.status = 400 /\ out.stored = <<>>

\* a request was rejected for a repeated element name (line 126) while a recipe of
\* two elements is stored
C11_Witness ==
    \E t \in Threads : \E n \in DOMAIN cookbook :
        /\ pc[t] = "done" /\ req[t].op = "create" /\ resp[t].line = 126
        /\ IsRecipe(cookbook[n]) /\ Len(cookbook[n].required_items) = 2

(***************************************************************************)
(* C12: every stored Ingredient has an integer cookTime >= 0; an           *)
(* ingredient request whose cookTime is missing, not an integer or         *)
(* negative is rejected.                                                   *)
(***************************************************************************)
\* a JSON integer: a number, not one of the literals true and false
IsJsonInteger(v) == v.k = "int"

\* C12: each stored Ingredient holds a JSON integer cookTime that is not negative
C12_CookTimeInteger ==
    \A n \in DOMAIN cookbook :
        IsIngredient(cookbook[n]) =>
            IsJsonInteger(cookbook[n].cook_time) /\ cookbook[n].cook_time.i >= 0

(***************************************************************************)
(* C13: create_entry accepts a request only when its `type` is exactly     *)
(* 'recipe' or 'ingredient'; every other request is rejected and nothing   *)
(* is stored.                                                              *)
(***************************************************************************)
ValidType(v) == IsStr(v) /\ v.s \in {TypeRecipe, TypeIngredient}

\* After a POST /entry whose `type`, read from ty, is not valid: 400, store unchanged;
\* and 200 only for a valid one.
TypeDecides(t, ty) ==
    CreateStep(t) =>
        /\ resp'[t].status = 200 => ValidType(ty)
        /\ ~ValidType(ty) => resp'[t].status = 400 /\ cookbook' = cookbook

\* C13 as stated: the `type` field of the request body itself decides
C13_Original == [][\A t \in Threads : TypeDecides(t, req'[t].own)]_vars

\* C13 amended: the `type` field of the entry decides, the entry being the `entry`
\* field of the body when that is an object and the body itself otherwise
C13_TypeOfEntry == [][\A t \in Threads : TypeDecides(t, req'[t].type)]_vars

\* a body {"entry": {...}} without a `type` of its own has been accepted and stored
C13_Witness ==
    \E t \in Threads :
        /\ pc[t] = "done" /\ req[t].op = "create" /\ resp[t].status = 200
        /\ req[t].own = JNull /\ ValidType(req[t].type)
        /\ req[t].name.s \in DOMAIN cookbook

(***************************************************************************)
(* C14: parse_handwriting returns None for every input string without an   *)
(* ASCII letter and a string for every input with at least one.            *)
(***************************************************************************)
ParseDone(t) == pc[t] = "done" /\ req[t].op = "parse"
HasLetter(x) == \E i \in 1..Len(x) : IsLetter(x[i])

\* C14: /parse answers 400 exactly when the input holds no ASCII letter, and 200 with
\* a msg otherwise
C14_LettersDecide ==
    \A t \in Threads :
        ParseDone(t) =>
            IF HasLetter(req[t].name.s)
            THEN resp[t].status = 200 /\ resp[t].kind = "msg"
            ELSE resp[t].status = 400 /\ resp[t].line = 40

\* an input made of a hyphen, a digit and whitespace only has been rejected
C14_Witness ==
    \E t \in Threads :
        /\ ParseDone(t) /\ resp[t].status = 400
        /\ \E i, j, k \in 1..Len(req[t].name.s) :
               /\ req[t].name.s[i] = "-" /\ req[t].name.s[j] = "2"
               /\ IsSpace(req[t].name.s[k])

(***************************************************************************)
(* C15: an accepted input is returned in canonical form: its maximal runs  *)
(* of letters, where hyphen, underscore and whitespace end a run and any   *)
(* other character is dropped without ending it, each run with its first   *)
(* letter in upper and the rest in lower case, joined by single spaces.    *)
(***************************************************************************)
\* the runs of letters of x, read character by character; cur is the run being read
RECURSIVE Runs(_, _, _)
Runs(x, cur, words) ==
    LET closed == IF cur = <<>> THEN words ELSE Append(words, cur) IN
    IF x = <<>> THEN closed
    ELSE IF IsLetter(Head(x)) THEN Runs(Tail(x), Append(cur, Head(x)), words)
    ELSE IF Head(x) \in {"-", "_"} \/ IsSpace(Head(x)) THEN Runs(Tail(x), <<>>, closed)
    ELSE Runs(Tail(x), cur, words)

RECURSIVE Canonical(_)
Canonical(runs) ==
    IF runs = <<>> THEN <<>>
    ELSE LET w == Head(runs)
             word == <<ToUpper(w[1])>> \o [i \in 1..(Len(w) - 1) |-> ToLower(w[i + 1])]
         IN  IF Len(runs) = 1 THEN word ELSE word \o <<" ">> \o Canonical(Tail(runs))

\* C15: the msg of a 200 response is the canonical form of the input; it neither
\* starts nor ends with a space and holds no two spaces in a row
C15_CanonicalForm ==
    \A t \in Threads :
        (ParseDone(t) /\ resp[t].status = 200) =>
            LET msg == resp[t].name IN
            /\ msg = Canonical(Runs(req[t].name.s, <<>>, <<>>))
            /\ msg[1] # " " /\ msg[Len(msg)] # " "
            /\ \A i \in 1..(Len(msg) - 1) : ~(msg[i] = " " /\ msg[i + 1] = " ")

\* an input with a digit inside one run of letters and a hyphen between two runs has
\* been answered with two words
C15_Witness ==
    \E t \in Threads :
        /\ ParseDone(t) /\ resp[t].status = 200
        /\ \E i \in 1..(Len(req[t].name.s) - 2) :
               /\ IsLetter(req[t].name.s[i]) /\ req[t].name.s[i + 1] = "2"
               /\ IsLetter(req[t].name.s[i + 2])
        /\ \E i \in 1..(Len(req[t].name.s) - 2) :
               /\ IsLetter(req[t].name.s[i]) /\ req[t].name.s[i + 1] = "-"
               /\ IsLetter(req[t].name.s[i + 2])
        /\ Len(Runs(req[t].name.s, <<>>, <<>>)) = 2
        /\ Len(resp[t].name) = 4 /\ resp[t].name[3] = " "

(***************************************************************************)
(* C16: a successful summary lists each base ingredient once, in the order *)
(* in which the depth-first traversal, taking each recipe's required_items *)
(* in stored order, first meets it; meeting it again adds to its quantity  *)
(* and leaves its place in the list as it was.                             *)
(***************************************************************************)
\* the ingredients met by the depth-first traversal from n, in the order met, with
\* repetitions; fuel bounds the depth
RECURSIVE Leaves(_, _, _)
RECURSIVE LeavesOf(_, _, _)
Leaves(cb, n, fuel) ==
    IF fuel = 0 \/ n \notin DOMAIN cb THEN <<>>
    ELSE IF IsIngredient(cb[n]) THEN <<n>>
    ELSE LeavesOf(cb, cb[n].required_items, fuel - 1)
LeavesOf(cb, items, fuel) ==
    IF items = <<>> THEN <<>>
    ELSE Leaves(cb, items[1].name, fuel) \o LeavesOf(cb, Tail(items), fuel)

\* x without the later occurrences of each of its elements
FirstSeen(x) ==
    SelectSeq([i \in 1..Len(x) |-> [v |-> x[i], first |-> \A j \in 1..(i - 1) : x[j] # x[i]]],
              LAMBDA e : e.first)

\* C16: the names listed are the ingredients met, each at the place of its first
\* meeting and nowhere else, with the quantities of all its meetings added up
C16_FirstSeenOrder ==
    \A t \in Threads : \A n \in DOMAIN cookbook :
        (SummaryDone(t, n) /\ resp[t].status = 200) =>
            LET ings == resp[t].ingredients
                seen == FirstSeen(Leaves(cookbook, n, RecursionLimit))
            IN /\ Len(ings) = Len(seen)
               /\ \A j \in 1..Len(ings) : ings[j].name = seen[j].v
               /\ \A i, j \in 1..Len(ings) : ings[i].name = ings[j].name => i = j
               /\ \A j \in 1..Len(ings) :
                      ings[j].quantity = PathQuantity(cookbook, n, ings[j].name)

\* the traversal met one ingredient, then another, then the first again with a
\* quantity that is not zero; the list holds the two in that order
C16_Witness ==
    \E t \in Threads : \E n \in DOMAIN cookbook :
        /\ SummaryDone(t, n) /\ resp[t].status = 200
        /\ Len(resp[t].ingredients) = 2
        /\ LET met == Leaves(cookbook, n, RecursionLimit) IN
           /\ Len(met) = 3 /\ met[1] = met[3] /\ met[1] # met[2]
           /\ resp[t].ingredients[1].name = met[1]
           /\ resp[t].ingredients[1].quantity = MaxQuantity + MaxQuantity * MaxQuantity

(***************************************************************************)
(* C17: create_entry accepts recipes with zero and negative quantities,    *)
(* and the expansion multiplies by them as by any other: an ingredient     *)
(* reached only through a quantity of 0 is listed with quantity 0 and adds *)
(* 0 to cookTime, a negative quantity gives a negative listed quantity and *)
(* a negative share of cookTime; nothing is rejected or left out.          *)
(***************************************************************************)
\* the recipe requests with a quantity that is zero or negative
NonPositiveRecipes ==
    {d \in WidePayloads :
        /\ d.type.s = TypeRecipe
        /\ \E j \in 1..Len(d.requiredItems.items) :
               d.requiredItems.items[j].quantity.i <= 0}

\* some edge of path p has quantity 0
ThroughZero(cb, p) == \E j \in 1..(Len(p) - 1) : EdgeQuantity(cb, p[j], p[j + 1]) = 0

\* the cook time the listed quantities amount to
RECURSIVE ListedCookTime(_, _)
ListedCookTime(cb, ings) ==
    IF ings = <<>> THEN 0
    ELSE cb[ings[1].name].cook_time.i * ings[1].quantity
             + ListedCookTime(cb, Tail(ings))

\* C17: a recipe request with a quantity <= 0 is accepted when its name is free; and
\* after summary of a stored recipe whose reachable names are all stored and free of
\* cycles, the response is 200, lists every reachable ingredient, with quantity 0
\* when every path to it passes a quantity 0 and with the (negative) product when
\* its only path has a negative product, and cookTime is the sum of cook time times
\* listed quantity
C17_PlainMultipliers ==
    /\ (\A t \in Threads : pc[t] = "idle") =>
           \A d \in NonPositiveRecipes :
               LET out == CreateResult(d, cookbook) IN
               IF d.name.s \in DOMAIN cookbook THEN out.resp.line = 92
               ELSE out.resp.status = 200 /\ out.stored # <<>>
    /\ \A t \in Threads : \A n \in DOMAIN cookbook :
           (SummaryDone(t, n) /\ ~MissingFrom(cookbook, n) /\ ~CycleFrom(cookbook, n)) =>
               LET r == resp[t] IN
               /\ r.status = 200
               /\ \A v \in ReachableIngredients(cookbook, n) :
                      \E j \in 1..Len(r.ingredients) :
                          LET ps == Paths(cookbook, n, v) IN
                          /\ r.ingredients[j].name = v
                          /\ (\A p \in ps : ThroughZero(cookbook, p))
                                 => r.ingredients[j].quantity = 0
                          /\ (\E p \in ps : ps = {p} /\ PathProduct(cookbook, p) < 0)
                                 => /\ r.ingredients[j].quantity < 0
                                    /\ r.ingredients[j].quantity
                                           = PathProduct(cookbook, CHOOSE p \in ps : TRUE)
               /\ r.cookTime = ListedCookTime(cookbook, r.ingredients)

\* a summary lists one ingredient with quantity 0, reached through a quantity 0 only,
\* and one with a negative quantity, and its cookTime is negative
C17_Witness ==
    \E t \in Threads : \E n \in DOMAIN cookbook :
        /\ SummaryDone(t, n) /\ resp[t].status = 200 /\ resp[t].cookTime < 0
        /\ \E i, j \in 1..Len(resp[t].ingredients) :
               /\ resp[t].ingredients[i].quantity = 0
               /\ \A p \in Paths(cookbook, n, resp[t].ingredients[i].name) :
                      ThroughZero(cookbook, p)
               /\ resp[t].ingredients[j].quantity < 0

(***************************************************************************)
(* C18: whatever create_entry requests run beside it, a successful summary *)
(* answers what the expansion of its recipe gives on one value that the    *)
(* cookbook had between the start of the call and its return.              *)
(***************************************************************************)
\* C18: the 200 response of a summary is the response of summary run as a whole on
\* one of the cookbook values of its history
C18_OneStoreState ==
    \A t \in Threads :
        (pc[t] = "done" /\ req[t].op = "summary" /\ resp[t].status = 200) =>
            \E cb \in history[t] : SummaryResult(req[t].name, cb).resp = resp[t]

====
